---------------------------- MODULE Spec2Model ----------------------------
(***************************************************************************)
(* A model of src/web_app.py: the query expander                           *)
(* (NaturalLanguageQueryParser), the diagram post-processing               *)
(* (MermaidDiagramGenerator), the relevance scorer and the result merger   *)
(* (GitHubWebSearcher).                                                    *)
(*                                                                         *)
(* Python strings are sequences of one-character strings, so that split,   *)
(* strip, lower, substring tests and iteration are computed and not        *)
(* assumed.  A Python value whose type matters (str or list) is a record   *)
(* [type, val].                                                            *)
(***************************************************************************)
EXTENDS Integers, Sequences, FiniteSets, TLC

VARIABLES
    parser,             \* call frame of parse_natural_language_query
    diagram,            \* call frame of generate_mermaid_diagram
    scorer,             \* call frame of calculate_semantic_relevance
    variations,         \* search_multiple_variations: argument
    original_query,     \* search_multiple_variations: argument
    limit,              \* search_multiple_variations: argument
    preferred_language, \* search_multiple_variations: argument
    all_results,        \* search_multiple_variations: local
    seen_repos,         \* search_multiple_variations: local
    final_results,      \* search_multiple_variations: local
    idx,                \* search_multiple_variations: loop index i (1-based)
    pc,                 \* search_multiple_variations: position
    calls,              \* remote calls and sleeps made so far, in order
    first_seen,         \* history: id -> index of the first successful
                        \* variation whose response held the id (0: none)
    repeated,           \* history: a search returned an identity that was
                        \* already seen
    tie_up,             \* which way the binary double falls at a decimal tie
    handler             \* call frame of the /search and /generate-diagram
                        \* handlers

vars == <<parser, diagram, scorer, variations, original_query, limit,
          preferred_language, all_results, seen_repos, final_results, idx,
          pc, calls, first_seen, repeated, tie_up, handler>>

mergeVars == <<variations, original_query, limit, preferred_language,
               all_results, seen_repos, final_results, idx, pc, calls,
               first_seen, repeated>>

Idle == [pc |-> "idle"]

None == [type |-> "NoneType"]

---------------------------------------------------------------------------
(* Python str operations on sequences of characters.                       *)

\* str.isspace for one character
IsSpace(c) == c \in {" ", "\n", "\t"}

\* set(sequence)
ToSet(seq) == {seq[i] : i \in 1..Len(seq)}

UpperLetters ==
    <<"A","B","C","D","E","F","G","H","I","J","K","L","M",
      "N","O","P","Q","R","S","T","U","V","W","X","Y","Z">>
LowerLetters ==
    <<"a","b","c","d","e","f","g","h","i","j","k","l","m",
      "n","o","p","q","r","s","t","u","v","w","x","y","z">>

\* str.lower for one character
LowerChar(c) ==
    IF \E i \in 1..Len(UpperLetters) : UpperLetters[i] = c
    THEN LowerLetters[CHOOSE i \in 1..Len(UpperLetters) : UpperLetters[i] = c]
    ELSE c

\* the characters of the inputs
Alphabet ==
    ToSet(UpperLetters) \cup ToSet(LowerLetters)
    \cup {" ", "\n", "\t", "-", ">", "&", "/", "[", "]", ".", "_"}

LowerTable == [c \in Alphabet |-> LowerChar(c)]

Lower(s) == [i \in 1..Len(s) |-> LowerTable[s[i]]]

\* s[:n]
Take(s, n) == SubSeq(s, 1, IF n < Len(s) THEN n ELSE Len(s))

\* str.startswith
StartsWith(s, p) == Len(p) <= Len(s) /\ SubSeq(s, 1, Len(p)) = p

\* needle in hay (substring test; the empty string is in every string)
Contains(hay, needle) ==
    \E i \in 1..(Len(hay) - Len(needle) + 1) :
        SubSeq(hay, i, i + Len(needle) - 1) = needle

\* str.find from position i on, 1-based, 0 when absent (sep is not empty)
RECURSIVE FindFrom(_, _, _)
FindFrom(s, sep, i) ==
    IF i + Len(sep) - 1 > Len(s) THEN 0
    ELSE IF SubSeq(s, i, i + Len(sep) - 1) = sep THEN i
    ELSE FindFrom(s, sep, i + 1)

Find(s, sep) == FindFrom(s, sep, 1)

\* str.split(sep): non-overlapping occurrences, left to right
RECURSIVE Split(_, _)
Split(s, sep) ==
    LET i == Find(s, sep)
    IN IF i = 0 THEN <<s>>
       ELSE <<SubSeq(s, 1, i - 1)>>
            \o Split(SubSeq(s, i + Len(sep), Len(s)), sep)

\* sep.join(list)
RECURSIVE Join(_, _)
Join(list, sep) ==
    IF list = <<>> THEN <<>>
    ELSE IF Len(list) = 1 THEN list[1]
    ELSE list[1] \o sep \o Join(Tail(list), sep)

\* str.replace(old, new)
Replace(s, old, new) == Join(Split(s, old), new)

\* the first position from i on that holds no whitespace (Len(s) + 1: none)
RECURSIVE SkipSpaces(_, _)
SkipSpaces(s, i) ==
    IF i > Len(s) \/ ~IsSpace(s[i]) THEN i ELSE SkipSpaces(s, i + 1)

\* the first position from i on that holds whitespace (Len(s) + 1: none)
RECURSIVE SkipWord(_, _)
SkipWord(s, i) ==
    IF i > Len(s) \/ IsSpace(s[i]) THEN i ELSE SkipWord(s, i + 1)

\* the last position up to i that holds no whitespace (0: none)
RECURSIVE SkipSpacesBack(_, _)
SkipSpacesBack(s, i) ==
    IF i < 1 \/ ~IsSpace(s[i]) THEN i ELSE SkipSpacesBack(s, i - 1)

\* str.strip()
Strip(s) == SubSeq(s, SkipSpaces(s, 1), SkipSpacesBack(s, Len(s)))

\* str.split() with no separator: the maximal runs of non-space characters
RECURSIVE SplitWSFrom(_, _)
SplitWSFrom(s, i) ==
    LET b == SkipSpaces(s, i)
    IN IF b > Len(s) THEN <<>>
       ELSE LET e == SkipWord(s, b)
            IN <<SubSeq(s, b, e - 1)>> \o SplitWSFrom(s, e)

SplitWS(s) == SplitWSFrom(s, 1)

\* [x for x in seq if keep(x)]
RECURSIVE SelectNonEmpty(_)
SelectNonEmpty(seq) ==
    IF seq = <<>> THEN <<>>
    ELSE IF Head(seq) = <<>> THEN SelectNonEmpty(Tail(seq))
    ELSE <<Head(seq)>> \o SelectNonEmpty(Tail(seq))

\* all strings made of at most n pieces of the set pieces
RECURSIVE Texts(_, _)
Texts(pieces, n) ==
    IF n = 0 THEN {<<>>}
    ELSE LET shorter == Texts(pieces, n - 1)
         IN shorter \cup {t \o p : t \in shorter, p \in pieces}

PyStr(s) == [type |-> "str", val |-> s]
PyList(l) == [type |-> "list", val |-> l]

\* for x in v: a str yields its characters, each a str of length 1
Iterate(v) ==
    IF v.type = "str" THEN [i \in 1..Len(v.val) |-> <<v.val[i]>>]
    ELSE v.val

---------------------------------------------------------------------------
(* NaturalLanguageQueryParser.parse_natural_language_query                 *)

MaxVariationsKept == 3

MaxResponsePieces == 4

PhraseSamples ==
    { <<"f","o","o"," ","b","a","r">>,
      <<"w","e","b"," ","s","c","r","a","p","e","r">> }

ResponsePieces == { <<"a">>, <<"b">>, <<" ">>, <<"\n">> }

\* what client.chat.completions.create does: raises, or returns a text
Completions ==
    {[raised |-> TRUE, content |-> <<>>]}
    \cup {[raised |-> FALSE, content |-> t] :
            t \in Texts(ResponsePieces, MaxResponsePieces)}

\* [line.strip() for line in response_text.split('\n') if line.strip()]
StrippedLines(response_text) ==
    LET lines == Split(response_text, <<"\n">>)
    IN SelectNonEmpty([i \in 1..Len(lines) |-> Strip(lines[i])])

ParseNaturalLanguageQuery(client, user_query, completion) ==
    IF ~client THEN PyStr(user_query)
    ELSE IF completion.raised THEN PyList(<<user_query>>)
    ELSE LET response_text == Strip(completion.content)
             found == StrippedLines(response_text)
         IN IF found = <<>> THEN PyList(<<user_query>>)
            ELSE PyList(Take(found, MaxVariationsKept))

ParserInit ==
    /\ parser \in {[pc |-> "call", client |-> c, user_query |-> q,
                    completion |-> k, result |-> None] :
                      c \in BOOLEAN, q \in PhraseSamples, k \in Completions}

ParserCall ==
    /\ parser.pc = "call"
    /\ parser' = [parser EXCEPT !.pc = "done",
                    !.result = ParseNaturalLanguageQuery(
                        parser.client, parser.user_query, parser.completion)]
    /\ UNCHANGED <<handler, diagram, scorer, mergeVars, tie_up>>

---------------------------------------------------------------------------
(* MermaidDiagramGenerator.generate_mermaid_diagram                        *)
(* The file listing only feeds the text sent to the generation call; the   *)
(* returned diagram depends on the client, the repository name and what    *)
(* the call returns or raises.                                             *)

ErrorDetailLen == 50

MaxDiagramPieces == 5

\* the backquote character (a string literal cannot hold it)
BT == "backquote"

Amp == <<"&">>
Arrow == <<"-","-",">">>
Newline == <<"\n">>
Fence == <<BT,BT,BT>>
FenceMermaid == <<BT,BT,BT,"m","e","r","m","a","i","d">>
GraphWord == <<"g","r","a","p","h">>
GraphDirective == <<"g","r","a","p","h"," ","T","D","\n">>
Indent == <<" "," "," "," ">>
ArrowSpaced == <<" ","-","-",">"," ">>

NoKeyStub ==
    <<"g","r","a","p","h"," ","T","D","\n"," "," "," "," ","A","[","R","e",
      "p","o","s","i","t","o","r","y","]"," ","-","-",">"," ","B","[","N",
      "o"," ","A","P","I"," ","k","e","y"," ","c","o","n","f","i","g","u",
      "r","e","d","]">>

ErrorStub(repository_name, error) ==
    <<"g","r","a","p","h"," ","T","D","\n"," "," "," "," ","A","[">>
    \o repository_name
    \o <<"]"," ","-","-",">"," ","B","[","E","r","r","o","r"," ","g","e",
         "n","e","r","a","t","i","n","g"," ","d","i","a","g","r","a","m",
         "]","\n"," "," "," "," ","B"," ","-","-",">"," ","C","[">>
    \o Take(error, ErrorDetailLen)
    \o <<".",".",".","]">>

\* a bug: the sources are not stripped
FixLineUnstripped(line) ==
    IF Contains(line, Amp) /\ Contains(line, Arrow)
    THEN LET parts == Split(line, Arrow)
         IN IF Len(parts) = 2
            THEN LET left_side == Strip(parts[1])
                     right_side == Strip(parts[2])
                 IN IF Contains(left_side, Amp)
                    THEN LET sources == Split(left_side, Amp)
                         IN [k \in 1..Len(sources) |->
                                Indent \o sources[k] \o ArrowSpaced
                                \o right_side]
                    ELSE <<line>>
            ELSE <<line>>
    ELSE <<line>>

\* the lines appended to fixed_lines for one line of the response
FixLine(line) ==
    IF Contains(line, Amp) /\ Contains(line, Arrow)
    THEN LET parts == Split(line, Arrow)
         IN IF Len(parts) = 2
            THEN LET left_side == Strip(parts[1])
                     right_side == Strip(parts[2])
                 IN IF Contains(left_side, Amp)
                    THEN LET sources == Split(left_side, Amp)
                         IN [k \in 1..Len(sources) |->
                                Indent \o Strip(sources[k]) \o ArrowSpaced
                                \o right_side]
                    ELSE <<line>>
            ELSE <<line>>
    ELSE <<line>>

RECURSIVE FixLines(_)
FixLines(lines) ==
    IF lines = <<>> THEN <<>>
    ELSE FixLine(Head(lines)) \o FixLines(Tail(lines))

\* the removal of markdown code block markers
StripFences(text) ==
    IF StartsWith(text, FenceMermaid)
    THEN Strip(Replace(Replace(text, FenceMermaid, <<>>), Fence, <<>>))
    ELSE IF StartsWith(text, Fence)
    THEN Strip(Replace(text, Fence, <<>>))
    ELSE text

EnsureDirective(text) ==
    IF ~StartsWith(text, GraphWord) THEN GraphDirective \o text ELSE text

RepositoryNames == { <<"o","/","r">>, <<"a","/","b","&","c">> }

RECURSIVE Repeat(_, _)
Repeat(c, n) == IF n = 0 THEN <<>> ELSE <<c>> \o Repeat(c, n - 1)

ErrorSamples == { <<"b","o","o","m">>, Repeat("e", ErrorDetailLen + 3) }

DiagramPieces == { <<"A">>, Amp, Arrow, <<" ">>, Newline }

DiagramSamples ==
    { <<" "," "," "," ","A"," ","&"," ","B"," ","-","-",">"," ","C">>,
      <<BT,BT,BT,"m","e","r","m","a","i","d","\n","g","r","a","p","h",
        " ","T","D","\n"," "," "," "," ","A"," ","&"," ","B"," ","-","-",
        ">"," ","C","\n",BT,BT,BT>>,
      <<BT,BT,BT,"\n","A"," ","-","-",">"," ","B"," ","&"," ","C","\n",
        BT,BT,BT>>,
      <<"g","r","a","p","h"," ","T","D","\n","A","&","B","-","-",">","C",
        "-","-",">","D">> }

DiagramCompletions ==
    {[raised |-> TRUE, content |-> <<>>, error |-> e] : e \in ErrorSamples}
    \cup {[raised |-> FALSE, content |-> t, error |-> <<>>] :
            t \in Texts(DiagramPieces, MaxDiagramPieces) \cup DiagramSamples}

DiagramInit ==
    /\ diagram \in {[pc |-> "call", client |-> c, repository_name |-> n,
                     completion |-> k, response_text |-> None,
                     fixed_lines |-> None, result |-> None] :
                       c \in BOOLEAN, n \in RepositoryNames,
                       k \in DiagramCompletions}

\* "if not self.client: return ..."
DiagramNoClient ==
    /\ diagram.pc = "call"
    /\ ~diagram.client
    /\ diagram' = [diagram EXCEPT !.pc = "stub", !.result = NoKeyStub]
    /\ UNCHANGED <<handler, parser, scorer, mergeVars, tie_up>>

\* the generation call raises: "except Exception as e"
DiagramError ==
    /\ diagram.pc = "call"
    /\ diagram.client
    /\ diagram.completion.raised
    /\ diagram' = [diagram EXCEPT !.pc = "stub",
                     !.result = ErrorStub(diagram.repository_name,
                                          diagram.completion.error)]
    /\ UNCHANGED <<handler, parser, scorer, mergeVars, tie_up>>

\* the generation call returns: clean up, repair, ensure the directive
DiagramGenerate ==
    /\ diagram.pc = "call"
    /\ diagram.client
    /\ ~diagram.completion.raised
    /\ LET response_text == StripFences(Strip(diagram.completion.content))
           fixed_lines == FixLines(Split(response_text, Newline))
       IN diagram' = [diagram EXCEPT !.pc = "done",
                        !.response_text = response_text,
                        !.fixed_lines = fixed_lines,
                        !.result = EnsureDirective(Join(fixed_lines, Newline))]
    /\ UNCHANGED <<handler, parser, scorer, mergeVars, tie_up>>

---------------------------------------------------------------------------
(* GitHubWebSearcher.calculate_semantic_relevance                          *)
(* A repository record holds a str-or-None (PyStr or None) for name,       *)
(* description, readme_preview and language (an absent key and a None      *)
(* value take the same branch of the code), a list of strings for topics,  *)
(* and a number for stargazers_count.                                      *)
(* stars / 1000 is kept exact by counting the raw score in thousandths;    *)
(* the rounded score is counted in hundredths.                             *)

NameWeight == 3
DescWeight == 2
TopicWeight == 2
ReadmeWeight == 1
PhraseBonus == 5
StarsPerPoint == 1000
StarsBonusCap == 2
LanguageBonus == 3
MaxPossibleScore == 20

\* (x or '')
OrEmpty(v) == IF v.type = "NoneType" THEN <<>> ELSE v.val

\* truthiness of a str-or-None
Truthy(v) == v.type # "NoneType" /\ v.val # <<>>

\* a bug: the words are looked up among the whole words of the text
MatchPointsWholeWords(weight, words, text) ==
    weight * Cardinality(words \cap ToSet(SplitWS(text)))

\* sum(weight for word in query_words if word in text)
MatchPoints(weight, words, text) ==
    weight * Cardinality({w \in words : Contains(text, w)})

\* a bug: the cap of the bonus is left out
StarsBonusUncapped(stars) == stars

\* min(stars / 1000, 2), in thousandths
StarsBonusMilli(stars) ==
    IF stars < StarsBonusCap * StarsPerPoint THEN stars
    ELSE StarsBonusCap * StarsPerPoint

\* a bug: the quotient is rounded without the cap at 1.0
NormalizeUncapped(rawMilli, tie) ==
    LET unit == (MaxPossibleScore * StarsPerPoint) \div 100
        q == rawMilli \div unit
        r == rawMilli % unit
    IN IF 2 * r < unit THEN q
       ELSE IF 2 * r > unit THEN q + 1
       ELSE IF tie THEN q + 1 ELSE q

\* round(min(raw / 20, 1.0), 2) in hundredths, raw in thousandths.  The
\* quotient in hundredths is rawMilli / 200.  round() rounds the binary
\* double, which at a decimal tie lies just above or just below it: tie
\* says which.
Normalize(rawMilli, tie) ==
    LET cap == MaxPossibleScore * StarsPerPoint
        capped == IF rawMilli < cap THEN rawMilli ELSE cap
        unit == cap \div 100
        q == capped \div unit
        r == capped % unit
    IN IF 2 * r < unit THEN q
       ELSE IF 2 * r > unit THEN q + 1
       ELSE IF tie THEN q + 1 ELSE q

CalculateSemanticRelevance(query, repo, preferred, tie) ==
    LET query_lower == Lower(query)
        query_words == ToSet(SplitWS(query_lower))
        repo_name == Lower(OrEmpty(repo.name))
        repo_desc == Lower(OrEmpty(repo.description))
        repo_topics == Lower(Join(repo.topics, <<" ">>))
        readme_content == Lower(OrEmpty(repo.readme_preview))
        all_repo_text == repo_name \o <<" ">> \o repo_desc \o <<" ">>
                         \o repo_topics \o <<" ">> \o readme_content
        repo_words == ToSet(SplitWS(all_repo_text))
        overlap == Cardinality(query_words \cap repo_words)
        name_matches == MatchPoints(NameWeight, query_words, repo_name)
        desc_matches == MatchPoints(DescWeight, query_words, repo_desc)
        topic_matches == MatchPoints(TopicWeight, query_words, repo_topics)
        readme_matches ==
            MatchPoints(ReadmeWeight, query_words, readme_content)
        phrase_bonus ==
            IF Cardinality(query_words) > 1
               /\ Contains(all_repo_text, Lower(query))
            THEN PhraseBonus ELSE 0
        stars_bonus == StarsBonusMilli(repo.stargazers_count)
        language_bonus ==
            IF Truthy(preferred)
               /\ Truthy(repo.language)
               /\ Lower(repo.language.val) = Lower(preferred.val)
            THEN LanguageBonus ELSE 0
        raw_score ==
            StarsPerPoint * (overlap + name_matches + desc_matches
                             + topic_matches + readme_matches + phrase_bonus
                             + language_bonus)
            + stars_bonus
    IN [overlap |-> overlap, name_matches |-> name_matches,
        desc_matches |-> desc_matches, topic_matches |-> topic_matches,
        readme_matches |-> readme_matches, phrase_bonus |-> phrase_bonus,
        stars_bonus |-> stars_bonus, language_bonus |-> language_bonus,
        raw_score |-> raw_score, score |-> Normalize(raw_score, tie)]

\* the value the function returns
SemanticRelevance(query, repo, preferred, tie) ==
    CalculateSemanticRelevance(query, repo, preferred, tie).score

MaxQueryWords == 2

str_bird == <<"b","i","r","d">>
str_sound == <<"s","o","u","n","d">>
str_Sound == <<"S","o","u","n","d">>
str_detection == <<"d","e","t","e","c","t","i","o","n">>
str_audio_classifier ==
    <<"a","u","d","i","o","-","c","l","a","s","s","i","f","i","e","r">>
str_python == <<"p","y","t","h","o","n">>
str_Python == <<"P","y","t","h","o","n">>
ScenarioQuery == str_bird \o <<" ">> \o str_sound \o <<" ">> \o str_detection
ScenarioDescription == ScenarioQuery \o <<" ","t","o","o","l">>

QueryWordPool == {str_bird, str_Sound}

\* queries of 1..n pool words, single-spaced
RECURSIVE QueriesOf(_)
QueriesOf(n) ==
    IF n = 1 THEN QueryWordPool
    ELSE LET shorter == QueriesOf(n - 1)
         IN shorter \cup {q \o <<" ">> \o w : q \in shorter, w \in QueryWordPool}

QuerySamples ==
    QueriesOf(MaxQueryWords)
    \cup { ScenarioQuery, <<" ">> \o str_bird \o <<" "," ">> \o str_sound }

NameSamples ==
    { None, PyStr(str_audio_classifier), PyStr(str_bird \o str_sound) }

DescriptionSamples ==
    { None, PyStr(ScenarioDescription), PyStr(str_sound) }

TopicSamples == { <<>>, <<str_bird, str_sound>> }

ReadmeSamples == { None, PyStr(str_Sound \o <<" ","o","f"," ">> \o str_bird \o <<"s">>) }

StarSamples == { 0, 100, 1500, 2000, 2500 }

\* <<preferred_language, the repository's language>>
LanguageCases ==
    { <<None, PyStr(str_Python)>>, <<PyStr(<<>>), PyStr(str_Python)>>,
      <<PyStr(str_python), PyStr(str_Python)>>, <<PyStr(str_python), None>>,
      <<PyStr(str_python), PyStr(<<"G","o">>)>> }

ScorerInputs ==
    {[pc |-> "call", query |-> q,
      repo |-> [id |-> 0, name |-> n, description |-> d, topics |-> t,
                readme_preview |-> r, stargazers_count |-> s,
                language |-> lc[2]],
      preferred |-> lc[1], parts |-> None, result |-> -1,
      prev_stars |-> -1, prev_result |-> -1] :
        q \in QuerySamples, n \in NameSamples, d \in DescriptionSamples,
        t \in TopicSamples, r \in ReadmeSamples, s \in StarSamples,
        lc \in LanguageCases}

ScorerInit ==
    /\ scorer \in ScorerInputs
    /\ tie_up \in BOOLEAN

\* one call of calculate_semantic_relevance
ScorerCall ==
    /\ scorer.pc = "call"
    /\ LET parts == CalculateSemanticRelevance(
                        scorer.query, scorer.repo, scorer.preferred, tie_up)
       IN scorer' = [scorer EXCEPT !.pc = "done", !.parts = parts,
                       !.result = parts.score]
    /\ UNCHANGED <<handler, parser, diagram, mergeVars, tie_up>>

\* a second call, on the record with another star count and all else equal
ScorerCallOtherStars ==
    /\ scorer.pc = "done"
    /\ \E s \in StarSamples :
        LET repo == [scorer.repo EXCEPT !.stargazers_count = s]
            parts == CalculateSemanticRelevance(
                        scorer.query, repo, scorer.preferred, tie_up)
        IN scorer' = [scorer EXCEPT !.pc = "again", !.repo = repo,
                        !.parts = parts, !.result = parts.score,
                        !.prev_stars = scorer.repo.stargazers_count,
                        !.prev_result = scorer.result]
    /\ UNCHANGED <<handler, parser, diagram, mergeVars, tie_up>>

---------------------------------------------------------------------------
(* GitHubWebSearcher.search_repositories, get_readme_content               *)

ReadmePreviewLen == 100

README_NOT_FOUND ==
    PyStr(<<"N", "o", " ", "R", "E", "A", "D", "M", "E", " ", "f",
          "o", "u", "n", "d">>)
README_FORBIDDEN ==
    PyStr(<<"R", "E", "A", "D", "M", "E", " ", "a", "v", "a", "i",
          "l", "a", "b", "l", "e", " ", "(", "a", "d", "d", " ", "G",
          "i", "t", "H", "u", "b", " ", "t", "o", "k", "e", "n", " ",
          "f", "o", "r", " ", "p", "r", "e", "v", "i", "e", "w", ")">>)
README_FETCH_FAILED ==
    PyStr(<<"R", "E", "A", "D", "M", "E", " ", "f", "e", "t", "c",
          "h", " ", "f", "a", "i", "l", "e", "d">>)
README_DECODE_FAILED ==
    PyStr(<<"R", "E", "A", "D", "M", "E", " ", "d", "e", "c", "o",
          "d", "e", " ", "f", "a", "i", "l", "e", "d">>)

ReadmePlaceholders ==
    {README_NOT_FOUND, README_FORBIDDEN, README_FETCH_FAILED,
     README_DECODE_FAILED}

\* What the remote does with one request.  "network_error": session.get
\* raises a RequestException; "status": a response with that status code;
\* "undecodable": a 200 response whose body cannot be decoded; "ok": a 200
\* response with a payload.
HttpFailures ==
    {[kind |-> "network_error"], [kind |-> "status", code |-> 404],
     [kind |-> "status", code |-> 403], [kind |-> "status", code |-> 500],
     [kind |-> "undecodable"]}

\* search_repositories: the search data, or {"error": ...}.  Every failure
\* of the request (the get, raise_for_status on an error status, the
\* decoding of the body, which raises requests' JSONDecodeError) is a
\* RequestException and is caught.
SearchRepositories(outcome) ==
    IF outcome.kind = "ok" THEN [kind |-> "data", items |-> outcome.items]
    ELSE [kind |-> "error"]

\* content[:100].replace('\n', ' ').strip()
ReadmePreview(content) ==
    Strip(Replace(Take(content, ReadmePreviewLen), <<"\n">>, <<" ">>))

\* get_readme_content: the preview, or the placeholder of the failure.
GetReadmeContent(outcome) ==
    IF outcome.kind = "network_error" THEN README_FETCH_FAILED
    ELSE IF outcome.kind = "status" /\ outcome.code = 404 THEN README_NOT_FOUND
    ELSE IF outcome.kind = "status" /\ outcome.code = 403 THEN README_FORBIDDEN
    ELSE IF outcome.kind = "status" THEN README_FETCH_FAILED
    ELSE IF outcome.kind = "undecodable" THEN README_DECODE_FAILED
    ELSE PyStr(ReadmePreview(outcome.content))

---------------------------------------------------------------------------
(* GitHubWebSearcher.search_multiple_variations                            *)

MaxVariations == 2
MaxItems == 2
MaxLimit == 2

MergeQuery == str_bird \o <<" ">> \o str_sound

VariationPool == { str_bird, str_audio_classifier }

\* The records the remote search can return.  With MergeQuery and the
\* preferred language python the first scores highest with the fewest
\* stars, and the other two score the same with different star counts.
RepoPool ==
    { [id |-> 1, name |-> PyStr(str_bird \o str_sound), description |-> None,
       topics |-> <<>>, readme_preview |-> None, stargazers_count |-> 100,
       language |-> PyStr(str_Python)],
      [id |-> 2, name |-> PyStr(str_audio_classifier),
       description |-> PyStr(str_sound), topics |-> <<>>,
       readme_preview |-> None, stargazers_count |-> 2500,
       language |-> None],
      [id |-> 3, name |-> PyStr(<<"x">>), description |-> PyStr(str_Sound),
       topics |-> <<>>, readme_preview |-> None, stargazers_count |-> 2000,
       language |-> None] }

RepoIds == {r.id : r \in RepoPool}

\* lists of at most n pool records
RECURSIVE ItemLists(_)
ItemLists(n) ==
    IF n = 0 THEN {<<>>}
    ELSE LET shorter == ItemLists(n - 1)
         IN shorter \cup {Append(l, r) : l \in shorter, r \in RepoPool}

ReadmeOutcomes ==
    HttpFailures
    \cup {[kind |-> "ok",
           content |-> <<" ">> \o str_Sound \o <<"\n","o","f","\n">>]}

\* sequences of 1..n pool variations
RECURSIVE VariationLists(_)
VariationLists(n) ==
    IF n = 1 THEN {<<v>> : v \in VariationPool}
    ELSE LET shorter == VariationLists(n - 1)
         IN shorter \cup {Append(l, v) : l \in shorter, v \in VariationPool}

\* a bug: the identity is never recorded as seen
AlreadySeenNever(repo, seen) == FALSE

\* "if repo_id not in seen_repos"
AlreadySeen(repo, seen) == repo.id \in seen

\* the inner loop over search_data['items']: [results, seen] after it
RECURSIVE AddItems(_, _, _, _, _, _, _)
AddItems(items, results, seen, query, preferred, variation, tie) ==
    IF items = <<>> THEN [results |-> results, seen |-> seen]
    ELSE LET repo == Head(items)
         IN IF AlreadySeen(repo, seen)
            THEN AddItems(Tail(items), results, seen, query, preferred,
                          variation, tie)
            ELSE AddItems(
                    Tail(items),
                    Append(results,
                           [id |-> repo.id, name |-> repo.name,
                            description |-> repo.description,
                            topics |-> repo.topics,
                            readme_preview |-> repo.readme_preview,
                            stargazers_count |-> repo.stargazers_count,
                            language |-> repo.language,
                            semantic_relevance |->
                                SemanticRelevance(query, repo, preferred, tie),
                            found_via_query |-> variation]),
                    seen \cup {repo.id}, query, preferred, variation, tie)

\* a bug: the sort key is the relevance alone
KeyLessRelevanceOnly(a, b) == a.semantic_relevance < b.semantic_relevance

\* the sort key (semantic_relevance, stargazers_count), compared as tuples
KeyLess(a, b) ==
    \/ a.semantic_relevance < b.semantic_relevance
    \/ /\ a.semantic_relevance = b.semantic_relevance
       /\ a.stargazers_count < b.stargazers_count

\* list.sort(key, reverse=True): descending and stable
RECURSIVE InsertDesc(_, _)
InsertDesc(sorted, x) ==
    IF sorted = <<>> THEN <<x>>
    ELSE IF KeyLess(Head(sorted), x) THEN <<x>> \o sorted
    ELSE <<Head(sorted)>> \o InsertDesc(Tail(sorted), x)

RECURSIVE SortDesc(_)
SortDesc(seq) ==
    IF seq = <<>> THEN <<>>
    ELSE InsertDesc(SortDesc(SubSeq(seq, 1, Len(seq) - 1)), seq[Len(seq)])

\* all_results[:limit]
Truncate(results, n) == Take(results, n)

\* where the search loop goes after the response to variation number i
AfterSearch(i, n) == IF i < n THEN "search" ELSE "sort"

MergeInit ==
    /\ variations \in VariationLists(MaxVariations)
    /\ original_query = MergeQuery
    /\ limit \in 0..MaxLimit
    /\ preferred_language = PyStr(str_python)
    /\ all_results = <<>>
    /\ seen_repos = {}
    /\ final_results = <<>>
    /\ idx = 1
    /\ pc = "search"
    /\ calls = <<>>
    /\ first_seen = [id \in RepoIds |-> 0]
    /\ repeated = FALSE
    /\ tie_up = TRUE

\* a bug: a failed search ends the merge
SearchFailsAborts ==
    /\ pc = "search"
    /\ calls' = Append(calls, [op |-> "search", query |-> variations[idx],
                               ok |-> FALSE])
    /\ pc' = "done"
    /\ idx' = idx + 1
    /\ UNCHANGED <<handler, parser, diagram, scorer, variations, original_query,
                   limit, preferred_language, all_results, seen_repos,
                   final_results, first_seen, repeated, tie_up>>

\* one iteration of the search loop whose request fails
SearchFails ==
    /\ pc = "search"
    /\ \E outcome \in HttpFailures :
        LET search_data == SearchRepositories(outcome)
        IN /\ search_data.kind = "error"
           /\ calls' = Append(calls, [op |-> "search",
                                      query |-> variations[idx],
                                      ok |-> FALSE])
    /\ pc' = AfterSearch(idx, Len(variations))
    /\ idx' = idx + 1
    /\ UNCHANGED <<handler, parser, diagram, scorer, variations, original_query,
                   limit, preferred_language, all_results, seen_repos,
                   final_results, first_seen, repeated, tie_up>>

\* one iteration of the search loop whose request succeeds
SearchSucceeds ==
    /\ pc = "search"
    /\ \E items \in ItemLists(MaxItems) :
        LET search_data == SearchRepositories([kind |-> "ok", items |-> items])
            merged == AddItems(search_data.items, all_results, seen_repos,
                               original_query, preferred_language,
                               variations[idx], tie_up)
        IN /\ search_data.kind = "data"
           /\ all_results' = merged.results
           /\ seen_repos' = merged.seen
           /\ first_seen' =
                [id \in RepoIds |->
                    IF first_seen[id] = 0
                       /\ \E k \in 1..Len(items) : items[k].id = id
                    THEN idx ELSE first_seen[id]]
           /\ repeated' =
                (repeated \/ Len(merged.results) - Len(all_results) < Len(items))
           /\ calls' = Append(calls,
                              [op |-> "search", query |-> variations[idx],
                               ok |-> TRUE])
    /\ pc' = AfterSearch(idx, Len(variations))
    /\ idx' = idx + 1
    /\ UNCHANGED <<handler, parser, diagram, scorer, variations, original_query,
                   limit, preferred_language, final_results, tie_up>>

\* a bug: the cut to limit is made before the sort
TruncateThenSort ==
    /\ pc = "sort"
    /\ final_results' = SortDesc(Truncate(all_results, limit))
    /\ idx' = 1
    /\ pc' = IF final_results' = <<>> THEN "done" ELSE "readme"
    /\ UNCHANGED <<handler, parser, diagram, scorer, variations, original_query,
                   limit, preferred_language, all_results, seen_repos, calls,
                   first_seen, repeated, tie_up>>

\* the sort and the cut to limit
SortAndTruncate ==
    /\ pc = "sort"
    /\ all_results' = SortDesc(all_results)
    /\ final_results' = Truncate(all_results', limit)
    /\ idx' = 1
    /\ pc' = IF final_results' = <<>> THEN "done" ELSE "readme"
    /\ UNCHANGED <<handler, parser, diagram, scorer, variations, original_query,
                   limit, preferred_language, seen_repos, calls, first_seen,
                   repeated, tie_up>>

\* a bug: the delay is also made after the last fetch
AfterReadmeAlwaysSleeps(i, n) == "sleep"

\* where the preview loop goes after the fetch for item number i of n
AfterReadme(i, n) == IF i < n THEN "sleep" ELSE "done"

\* a bug: a failed preview fetch ends the loop
FetchReadmeAborts ==
    /\ pc = "readme"
    /\ \E outcome \in ReadmeOutcomes :
        /\ final_results' =
             IF outcome.kind = "ok"
             THEN [final_results EXCEPT
                     ![idx].readme_preview = GetReadmeContent(outcome)]
             ELSE final_results
        /\ calls' = Append(calls, [op |-> "readme",
                                   id |-> final_results[idx].id,
                                   ok |-> outcome.kind = "ok"])
        /\ pc' = IF outcome.kind = "ok"
                 THEN AfterReadme(idx, Len(final_results)) ELSE "done"
    /\ UNCHANGED <<handler, parser, diagram, scorer, variations, original_query,
                   limit, preferred_language, all_results, seen_repos, idx,
                   first_seen, repeated, tie_up>>

\* a bug: the item is scored again once its preview is known
FetchReadmeRescores ==
    /\ pc = "readme"
    /\ \E outcome \in ReadmeOutcomes :
        LET preview == GetReadmeContent(outcome)
            withPreview == [final_results[idx] EXCEPT
                              !.readme_preview = preview]
            rescored == [withPreview EXCEPT
                           !.semantic_relevance =
                              SemanticRelevance(original_query, withPreview,
                                                preferred_language, tie_up)]
        IN /\ final_results' = [final_results EXCEPT ![idx] = rescored]
           /\ all_results' = [all_results EXCEPT ![idx] = rescored]
           /\ calls' = Append(calls, [op |-> "readme",
                                      id |-> final_results[idx].id,
                                      ok |-> outcome.kind = "ok"])
    /\ pc' = AfterReadme(idx, Len(final_results))
    /\ UNCHANGED <<handler, parser, diagram, scorer, variations,
                   original_query, limit, preferred_language, seen_repos,
                   idx, first_seen, repeated, tie_up>>

\* one preview fetch; final_results[idx] and all_results[idx] are the same
\* object
FetchReadme ==
    /\ pc = "readme"
    /\ \E outcome \in ReadmeOutcomes :
        LET preview == GetReadmeContent(outcome)
        IN /\ final_results' =
                [final_results EXCEPT ![idx].readme_preview = preview]
           /\ all_results' =
                [all_results EXCEPT ![idx].readme_preview = preview]
           /\ calls' = Append(calls, [op |-> "readme",
                                      id |-> final_results[idx].id,
                                      ok |-> outcome.kind = "ok"])
    /\ pc' = AfterReadme(idx, Len(final_results))
    /\ UNCHANGED <<handler, parser, diagram, scorer, variations, original_query,
                   limit, preferred_language, seen_repos, idx, first_seen,
                   repeated, tie_up>>

\* time.sleep(0.2) and the step to the next item
Sleep ==
    /\ pc = "sleep"
    /\ calls' = Append(calls, [op |-> "sleep"])
    /\ idx' = idx + 1
    /\ pc' = "readme"
    /\ UNCHANGED <<handler, parser, diagram, scorer, variations, original_query,
                   limit, preferred_language, all_results, seen_repos,
                   final_results, first_seen, repeated, tie_up>>

\* the returned dict, once pc = "done"
MergeResult == [total_count |-> Len(all_results), items |-> final_results]

---------------------------------------------------------------------------
(* GitHubWebSearcher.get_repository_tree and the Flask handlers search     *)
(* and generate_diagram.  The JSON body is a dict; a field of it is        *)
(* Absent (no such key), None (JSON null) or a str.                        *)

SearchLimit == 10

Absent == [type |-> "absent"]

\* data.get(key, '')
GetField(value) == IF value.type = "absent" THEN PyStr(<<>>) ELSE value

\* data.get(key)
GetOptional(value) == IF value.type = "absent" THEN None ELSE value

\* a bug: the field is used as sent
CleanFieldUnstripped(text) == text

\* .strip() on the field
CleanField(text) == Strip(text)

\* "key" in dict, for the dicts the handlers test
HasKey(dict, key) == key \in DOMAIN dict

QueryFields ==
    { Absent, None, PyStr(<<>>), PyStr(<<" ", "\t", "\n">>),
      PyStr(<<" ">> \o str_bird \o <<" ">>) }

SearchRequests ==
    {[route |-> "search", query |-> q, preferred_language |-> l] :
        q \in QueryFields, l \in {Absent, PyStr(str_python)}}

OwnerFields == { Absent, None, PyStr(<<>>), PyStr(<<" ">>), PyStr(<<"o">>) }

RepoFields == { Absent, None, PyStr(<<>>), PyStr(<<"r", " ">>) }

DiagramRequests ==
    {[route |-> "diagram", owner |-> o, repo |-> r] :
        o \in OwnerFields, r \in RepoFields}

\* what the expansion call does, for the requests of the handler
HandlerCompletions ==
    { [raised |-> TRUE, content |-> <<>>],
      [raised |-> FALSE,
       content |-> str_bird \o <<"\n">> \o str_audio_classifier] }

\* what the diagram generation call does, for the requests of the handler
HandlerDiagramCompletions ==
    { [raised |-> TRUE, content |-> <<>>, error |-> <<"b","o","o","m">>],
      [raised |-> FALSE, content |-> <<"A"," ","&"," ","B"," ","-","-",">",
                                       " ","C">>, error |-> <<>>] }

\* the 'tree' member of a decoded tree response
TreeSamples ==
    { <<>>,
      <<[type |-> "tree", path |-> "src"]>>,
      <<[type |-> "blob", path |-> "README.md"],
        [type |-> "tree", path |-> "src"],
        [type |-> "blob", path |-> "src/app.py"]>> }

TreeOutcomes ==
    HttpFailures \cup {[kind |-> "ok", tree |-> t] : t \in TreeSamples}

IsBlob(item) == item.type = "blob"

\* get_repository_tree: {"files": ...} or {"error": ...}; the two messages
\* that end in the text of the exception are kept up to that text
GetRepositoryTree(outcome) ==
    IF outcome.kind = "status" /\ outcome.code = 404
    THEN [error |-> "Repository not found"]
    ELSE IF outcome.kind = "status" /\ outcome.code = 403
    THEN [error |-> "Repository access denied (add GitHub token)"]
    ELSE IF outcome.kind \in {"network_error", "status"}
    THEN [error |-> "File tree fetch failed"]
    ELSE IF outcome.kind = "undecodable"
    THEN [error |-> "File tree decode failed"]
    ELSE [files |-> SelectSeq(outcome.tree, IsBlob)]

\* jsonify({"error": ...})
ErrorPayload(message) == [error |-> message]

\* an exception leaves the handler: the framework answers, not the handler
Unhandled == [exception |-> "AttributeError"]

HandlerInit ==
    handler \in {[pc |-> "start", request |-> r, query |-> None,
                  search_variations |-> None, repository_name |-> None,
                  files |-> <<>>, response |-> None] :
                    r \in SearchRequests \cup DiagramRequests}

Respond(payload) == [handler EXCEPT !.pc = "done", !.response = payload]

\* /search up to the call of the expander
SearchHandlerStart ==
    /\ handler.pc = "start"
    /\ handler.request.route = "search"
    /\ LET field == GetField(handler.request.query)
       IN IF field.type # "str"
          THEN /\ handler' = Respond(Unhandled)
               /\ UNCHANGED parser
          ELSE LET query == CleanField(field.val)
               IN IF query = <<>>
                  THEN /\ handler' = Respond(ErrorPayload(
                                         "Please enter a search query"))
                       /\ UNCHANGED parser
                  ELSE /\ handler' = [handler EXCEPT !.pc = "parsing",
                                        !.query = query]
                       /\ \E c \in BOOLEAN, k \in HandlerCompletions :
                            parser' = [pc |-> "call", client |-> c,
                                       user_query |-> query,
                                       completion |-> k, result |-> None]
    /\ UNCHANGED <<diagram, scorer, mergeVars, tie_up>>

\* /search: the expander has returned, search_multiple_variations starts
SearchHandlerMerge ==
    /\ handler.pc = "parsing"
    /\ parser.pc = "done"
    /\ handler' = [handler EXCEPT !.pc = "merging",
                     !.search_variations = parser.result]
    /\ variations' = Iterate(parser.result)
    /\ original_query' = handler.query
    /\ limit' = SearchLimit
    /\ preferred_language' = GetOptional(handler.request.preferred_language)
    /\ all_results' = <<>>
    /\ seen_repos' = {}
    /\ final_results' = <<>>
    /\ idx' = 1
    /\ pc' = "search"
    /\ first_seen' = [id \in RepoIds |-> 0]
    /\ UNCHANGED <<parser, diagram, scorer, calls, repeated, tie_up>>

\* /search: search_multiple_variations has returned
SearchHandlerReturn ==
    /\ handler.pc = "merging"
    /\ pc = "done"
    /\ LET results == MergeResult
       IN handler' =
            Respond(IF HasKey(results, "error")
                    THEN ErrorPayload(results.error)
                    ELSE [original_query |-> handler.query,
                          search_variations |-> handler.search_variations,
                          total_count |-> results.total_count,
                          repositories |-> results.items])
    /\ UNCHANGED <<parser, diagram, scorer, mergeVars, tie_up>>

\* /generate-diagram up to the tree fetch
DiagramHandlerStart ==
    /\ handler.pc = "start"
    /\ handler.request.route = "diagram"
    /\ LET owner_field == GetField(handler.request.owner)
           repo_field == GetField(handler.request.repo)
       IN IF owner_field.type # "str" \/ repo_field.type # "str"
          THEN handler' = Respond(Unhandled)
          ELSE LET owner == CleanField(owner_field.val)
                   repo == CleanField(repo_field.val)
               IN IF owner = <<>> \/ repo = <<>>
                  THEN handler' = Respond(ErrorPayload(
                            "Owner and repository name are required"))
                  ELSE handler' = [handler EXCEPT !.pc = "tree",
                            !.repository_name = owner \o <<"/">> \o repo]
    /\ UNCHANGED <<parser, diagram, scorer, mergeVars, tie_up>>

\* /generate-diagram: the tree fetch, up to the call of the generator
DiagramHandlerTree ==
    /\ handler.pc = "tree"
    /\ \E outcome \in TreeOutcomes :
        LET tree_data == GetRepositoryTree(outcome)
        IN /\ calls' = Append(calls, [op |-> "tree",
                                      ok |-> ~HasKey(tree_data, "error")])
           /\ IF HasKey(tree_data, "error")
              THEN /\ handler' = Respond(ErrorPayload(tree_data.error))
                   /\ UNCHANGED diagram
              ELSE IF tree_data.files = <<>>
              THEN /\ handler' = Respond(ErrorPayload(
                                     "No files found in repository"))
                   /\ UNCHANGED diagram
              ELSE /\ handler' = [handler EXCEPT !.pc = "generating",
                                    !.files = tree_data.files]
                   /\ \E c \in BOOLEAN, k \in HandlerDiagramCompletions :
                        diagram' =
                          [pc |-> "call", client |-> c,
                           repository_name |-> handler.repository_name,
                           completion |-> k, response_text |-> None,
                           fixed_lines |-> None, result |-> None]
    /\ UNCHANGED <<parser, scorer, variations, original_query, limit,
                   preferred_language, all_results, seen_repos,
                   final_results, idx, pc, first_seen, repeated, tie_up>>

\* /generate-diagram: generate_mermaid_diagram has returned
DiagramHandlerReturn ==
    /\ handler.pc = "generating"
    /\ diagram.pc \in {"stub", "done"}
    /\ handler' = Respond([repository |-> handler.repository_name,
                           file_count |-> Len(handler.files),
                           diagram |-> diagram.result])
    /\ UNCHANGED <<parser, diagram, scorer, mergeVars, tie_up>>

---------------------------------------------------------------------------
(* Specifications                                                          *)

MergeIdle ==
    /\ variations = <<>>
    /\ original_query = <<>>
    /\ limit = 0
    /\ preferred_language = None
    /\ all_results = <<>>
    /\ seen_repos = {}
    /\ final_results = <<>>
    /\ idx = 0
    /\ pc = "idle"
    /\ calls = <<>>
    /\ first_seen = <<>>
    /\ repeated = FALSE

InitParser ==
    /\ ParserInit
    /\ handler = Idle
    /\ diagram = Idle
    /\ scorer = Idle
    /\ MergeIdle
    /\ tie_up = FALSE

NextParser == ParserCall

SpecParser == InitParser /\ [][NextParser]_vars

InitDiagram ==
    /\ DiagramInit
    /\ handler = Idle
    /\ parser = Idle
    /\ scorer = Idle
    /\ MergeIdle
    /\ tie_up = FALSE

NextDiagram == DiagramNoClient \/ DiagramError \/ DiagramGenerate

SpecDiagram == InitDiagram /\ [][NextDiagram]_vars

InitScorer ==
    /\ ScorerInit
    /\ handler = Idle
    /\ parser = Idle
    /\ diagram = Idle
    /\ MergeIdle

NextScorer == ScorerCall \/ ScorerCallOtherStars

SpecScorer == InitScorer /\ [][NextScorer]_vars

Init ==
    /\ MergeInit
    /\ handler = Idle
    /\ parser = Idle
    /\ diagram = Idle
    /\ scorer = Idle

Next ==
    \/ SearchFails
    \/ SearchSucceeds
    \/ SortAndTruncate
    \/ FetchReadme
    \/ Sleep

Spec == Init /\ [][Next]_vars

InitHandlers ==
    /\ HandlerInit
    /\ parser = Idle
    /\ diagram = Idle
    /\ scorer = Idle
    /\ MergeIdle
    /\ tie_up = TRUE

NextHandlers ==
    \/ SearchHandlerStart
    \/ ParserCall
    \/ SearchHandlerMerge
    \/ SearchFails
    \/ SearchSucceeds
    \/ SortAndTruncate
    \/ FetchReadme
    \/ Sleep
    \/ SearchHandlerReturn
    \/ DiagramHandlerStart
    \/ DiagramHandlerTree
    \/ DiagramNoClient
    \/ DiagramError
    \/ DiagramGenerate
    \/ DiagramHandlerReturn

SpecHandlers == InitHandlers /\ [][NextHandlers]_vars

---------------------------------------------------------------------------
(* Claims                                                                  *)

\* C1: when the parser has no client, parse_natural_language_query(phrase)
\* returns the one-element list [phrase].
C1_FallbackIsSingletonList ==
    (parser.pc = "done" /\ ~parser.client)
    => /\ parser.result.type = "list"
       /\ parser.result.val = <<parser.user_query>>

\* the positions at which "-->" starts in a line
ArrowStarts(line) ==
    {i \in 1..Len(line) : i + 2 <= Len(line) /\ SubSeq(line, i, i + 2) = Arrow}

\* a line with exactly one arrow and an "&" somewhere to its left
AmpLeftOfOnlyArrow(line) ==
    /\ Cardinality(ArrowStarts(line)) = 1
    /\ \E i \in ArrowStarts(line) : \E j \in 1..(i - 1) : line[j] = "&"

\* the connection lines the repair is to give for such a line
PerSourceLines(line) ==
    LET a == CHOOSE i \in ArrowStarts(line) : TRUE
        sources == Split(SubSeq(line, 1, a - 1), Amp)
        target == Strip(SubSeq(line, a + 3, Len(line)))
    IN [k \in 1..Len(sources) |->
            <<" "," "," "," ">> \o Strip(sources[k]) \o <<" ","-","-",">"," ">>
            \o target]

RECURSIVE Concat(_)
Concat(lists) ==
    IF lists = <<>> THEN <<>> ELSE Head(lists) \o Concat(Tail(lists))

\* C2 (as amended): a response line with exactly one "-->" and an "&" to
\* its left is replaced by one line "    source --> target" per "&"-separated
\* source, in order, with the text right of the arrow as the target; every
\* other line is kept as it is; and in the returned diagram no line with
\* exactly one arrow has an "&" to the left of the arrow.
C2_RepairSplitsLeftSources ==
    diagram.pc = "done"
    => LET lines == Split(diagram.response_text, Newline)
           expected == [k \in 1..Len(lines) |->
                          IF AmpLeftOfOnlyArrow(lines[k])
                          THEN PerSourceLines(lines[k])
                          ELSE <<lines[k]>>]
           returned == Split(diagram.result, Newline)
       IN /\ diagram.fixed_lines = Concat(expected)
          /\ \A k \in 1..Len(returned) : ~AmpLeftOfOnlyArrow(returned[k])

\* C2 witness: the response "    A & B --> C" was repaired into the two
\* lines "    A --> C" and "    B --> C".
C2_Witness ==
    /\ diagram.pc = "done"
    /\ diagram.completion.content
         = <<" "," "," "," ","A"," ","&"," ","B"," ","-","-",">"," ","C">>
    /\ diagram.fixed_lines
         = << <<" "," "," "," ","A"," ","-","-",">"," ","C">>,
              <<" "," "," "," ","B"," ","-","-",">"," ","C">> >>

\* C2 (as first stated, for the connection lines): after the repair no
\* line of the returned diagram holds both "&" and "-->".
C2_NoAmpersandInConnections ==
    diagram.pc = "done"
    => LET returned == Split(diagram.result, Newline)
       IN \A k \in 1..Len(returned) :
            ~(Contains(returned[k], Amp) /\ Contains(returned[k], Arrow))

\* the sum of f over the finite set S
RECURSIVE SumSet(_, _)
SumSet(S, f) ==
    IF S = {} THEN 0
    ELSE LET x == CHOOSE y \in S : TRUE IN f[x] + SumSet(S \ {x}, f)

Scored == scorer.pc \in {"done", "again"}

\* the scenario: name "audio-classifier", description "bird sound detection
\* tool", 1500 stars, query "bird sound detection", no preferred language
IsScenario ==
    /\ scorer.query = ScenarioQuery
    /\ scorer.repo.name = PyStr(str_audio_classifier)
    /\ scorer.repo.description = PyStr(ScenarioDescription)
    /\ scorer.repo.topics = <<>>
    /\ scorer.repo.readme_preview = None
    /\ scorer.repo.stargazers_count = 1500
    /\ scorer.preferred = None

\* C3: the score is min(raw / 20, 1.0) rounded to 2 decimals, where raw adds,
\* for each distinct lowercased query token, 1 if it is a whole word of
\* name + description + topics + preview, 3 if it is a substring of the
\* name, 2 of the description, 2 of the joined topics and 1 of the preview,
\* then 5 for a phrase of more than one token found in the combined text,
\* min(stars / 1000, 2), and 3 for a preferred language equal to the
\* repository's up to case.  In the scenario overlap = 3, nameMatches = 0,
\* starsBonus = 1.5 and raw = 15.5, whose quotient 0.775 rounds to a
\* neighbouring hundredth.  (raw is in thousandths, the score in hundredths.)
C3_ScoreIsWeightedSum ==
    Scored
    => LET repo == scorer.repo
           tokens == ToSet(SplitWS(Lower(scorer.query)))
           name == Lower(OrEmpty(repo.name))
           desc == Lower(OrEmpty(repo.description))
           topics == Lower(Join(repo.topics, <<" ">>))
           preview == Lower(OrEmpty(repo.readme_preview))
           text == name \o <<" ">> \o desc \o <<" ">> \o topics \o <<" ">>
                   \o preview
           words == ToSet(SplitWS(text))
           One(b) == IF b THEN 1 ELSE 0
           points == [t \in tokens |->
                        One(t \in words) + 3 * One(Contains(name, t))
                        + 2 * One(Contains(desc, t))
                        + 2 * One(Contains(topics, t))
                        + One(Contains(preview, t))]
           phrase == IF Cardinality(tokens) > 1
                        /\ Contains(text, Lower(scorer.query))
                     THEN 5 ELSE 0
           lang == IF /\ scorer.preferred.type = "str"
                      /\ repo.language.type = "str"
                      /\ Lower(scorer.preferred.val) = Lower(repo.language.val)
                   THEN 3 ELSE 0
           stars == IF repo.stargazers_count < 2000
                    THEN repo.stargazers_count ELSE 2000
           raw == 1000 * (SumSet(tokens, points) + phrase + lang) + stars
           capped == IF raw < 20000 THEN raw ELSE 20000
       IN /\ scorer.parts.raw_score = raw
          /\ 200 * scorer.result - capped \in -100..100
          /\ IsScenario
             => /\ scorer.parts.overlap = 3
                /\ scorer.parts.name_matches = 0
                /\ scorer.parts.stars_bonus = 1500
                /\ raw = 15500
                /\ scorer.result \in {77, 78}

\* C3 witness: the scenario has been scored.
C3_Witness ==
    /\ scorer.pc = "done"
    /\ IsScenario
    /\ scorer.parts.raw_score = 15500
    /\ scorer.parts.desc_matches = 6
    /\ scorer.parts.phrase_bonus = 5

\* C4: for every query, record (name, description, topics, preview and
\* language possibly missing, stars >= 0) and preferred language, the score
\* lies in [0.00, 1.00] and is a whole number of hundredths.
C4_ScoreInUnitRange ==
    Scored => scorer.result \in 0..100

\* C4 witness: a record with a missing preview whose raw score exceeds 20 was
\* scored 1.00.
C4_Witness ==
    /\ scorer.pc = "done"
    /\ scorer.repo.readme_preview = None
    /\ scorer.parts.raw_score > 20000
    /\ scorer.result = 100

\* C5: of two records that differ only in star count, the one with more
\* stars scores at least as high; from 2000 stars on, and once the score is
\* 1.00, more stars change nothing.
C5_MonotoneInStars ==
    scorer.pc = "again"
    => LET s1 == scorer.prev_stars
           s2 == scorer.repo.stargazers_count
           r1 == scorer.prev_result
           r2 == scorer.result
       IN /\ s1 <= s2 => r1 <= r2
          /\ s2 <= s1 => r2 <= r1
          /\ (s1 >= 2000 /\ s2 >= 2000) => r1 = r2
          /\ (r1 = 100 /\ s1 <= s2) => r2 = 100

\* C5 witness: more stars below the cap raised the score, short of 1.00.
C5_Witness ==
    /\ scorer.pc = "again"
    /\ scorer.prev_stars < scorer.repo.stargazers_count
    /\ scorer.repo.stargazers_count < 2000
    /\ scorer.prev_result < scorer.result
    /\ scorer.result < 100

IsSearch(c) == c.op = "search"
IsReadme(c) == c.op = "readme"
SearchCalls == SelectSeq(calls, IsSearch)
ReadmeCalls == SelectSeq(calls, IsReadme)

\* the identities some successful search has returned so far
Returned == {id \in RepoIds : first_seen[id] # 0}

Cut == pc \in {"readme", "sleep", "done"}

\* a ranks strictly above b: more relevant, or as relevant with more stars
RanksAbove(a, b) ==
    \/ a.semantic_relevance > b.semantic_relevance
    \/ /\ a.semantic_relevance = b.semantic_relevance
       /\ a.stargazers_count > b.stargazers_count

\* C6: whatever the variations processed so far have returned, the unique
\* set holds exactly one entry for each identity some successful variation
\* has returned, tagged with the earliest variation that returned it, and
\* total_count is the number of these identities.
C6_OneEntryPerIdentity ==
    /\ \A i, j \in 1..Len(all_results) :
          i # j => all_results[i].id # all_results[j].id
    /\ {all_results[k].id : k \in 1..Len(all_results)} = Returned
    /\ \A k \in 1..Len(all_results) :
          all_results[k].found_via_query
            = variations[first_seen[all_results[k].id]]
    /\ pc = "done" => MergeResult.total_count = Cardinality(Returned)

\* C6 witness: an identity came back a second time, and the two entries of
\* the merged set carry different variations.
C6_Witness ==
    /\ pc = "done"
    /\ repeated
    /\ Len(all_results) = 2
    /\ all_results[1].found_via_query # all_results[2].found_via_query

\* C7: in the returned list an item of higher relevance precedes one of
\* lower relevance, and of two items of equal relevance the one with more
\* stars comes first.
C7_RankedOrder ==
    Cut => \A i, j \in 1..Len(MergeResult.items) :
             i < j => ~RanksAbove(MergeResult.items[j], MergeResult.items[i])

\* C7 witness: two items of equal relevance were returned by stars, the one
\* found by the later variation first.
C7_Witness ==
    /\ pc = "done"
    /\ Len(final_results) = 2
    /\ final_results[1].semantic_relevance
         = final_results[2].semantic_relevance
    /\ final_results[1].stargazers_count > final_results[2].stargazers_count
    /\ first_seen[final_results[1].id] > first_seen[final_results[2].id]

\* C8: the returned items are the first min(limit, totalUnique) elements of
\* the ranked unique set: their number is min(limit, totalUnique) and no
\* item left out ranks strictly above a returned one.
C8_TruncationKeepsTop ==
    Cut
    => LET items == MergeResult.items
           kept == {items[k].id : k \in 1..Len(items)}
           total == Cardinality(Returned)
       IN /\ Len(items) = IF limit < total THEN limit ELSE total
          /\ \A k \in 1..Len(all_results) :
                all_results[k].id \notin kept
                => \A m \in 1..Len(items) :
                     ~RanksAbove(all_results[k], items[m])

\* C8 witness: of three unique results one was kept, the top-ranked one,
\* which the second variation had found.
C8_Witness ==
    /\ pc = "done"
    /\ limit = 1
    /\ Len(all_results) = 3
    /\ Len(final_results) = 1
    /\ first_seen[final_results[1].id] = 2

\* C9: a failed search contributes nothing and stops nothing: once the
\* search loop is over every variation has been searched, in order, and the
\* unique set holds every identity the successful searches returned.
C9_FailedSearchIsSkipped ==
    /\ pc = "search" => Len(SearchCalls) = idx - 1
    /\ pc \in {"sort", "readme", "sleep", "done"}
       => /\ Len(SearchCalls) = Len(variations)
          /\ \A i \in 1..Len(variations) :
                SearchCalls[i].query = variations[i]
    /\ {all_results[k].id : k \in 1..Len(all_results)} = Returned
    /\ \A id \in Returned : SearchCalls[first_seen[id]].ok

\* C9 witness: the first search failed, the second succeeded and its
\* results were merged.
C9_Witness ==
    /\ pc = "done"
    /\ Len(SearchCalls) = 2
    /\ ~SearchCalls[1].ok
    /\ SearchCalls[2].ok
    /\ Len(all_results) = 2

\* what a preview fetch may change: the preview of item idx, nothing else
OnlyPreviewOfCurrentChanges ==
    pc = "readme"
    => /\ Len(final_results') = Len(final_results)
       /\ \A k \in 1..Len(final_results) :
             k # idx => final_results'[k] = final_results[k]
       /\ final_results'[idx]
            = [final_results[idx] EXCEPT
                 !.readme_preview = final_results'[idx].readme_preview]
       /\ ~calls'[Len(calls')].ok
          => final_results'[idx].readme_preview \in ReadmePlaceholders

\* once the merge returns: one fetch per returned item, in rank order, and a
\* placeholder where the fetch failed
EveryPreviewFetched ==
    pc = "done"
    => /\ Len(ReadmeCalls) = Len(final_results)
       /\ \A k \in 1..Len(final_results) :
             /\ ReadmeCalls[k].id = final_results[k].id
             /\ ~ReadmeCalls[k].ok
                => final_results[k].readme_preview \in ReadmePlaceholders

\* C10: a failed preview fetch sets that item's preview to a fixed
\* placeholder string, leaves the item where it is and every other item as
\* it was, and the previews of the later items are still fetched.
C10_FailedPreviewIsPlaceholder ==
    /\ []EveryPreviewFetched
    /\ [][OnlyPreviewOfCurrentChanges]_vars

\* C10 witness: the first preview fetch failed and the second succeeded.
C10_Witness ==
    /\ pc = "done"
    /\ Len(final_results) = 2
    /\ ~ReadmeCalls[1].ok
    /\ ReadmeCalls[2].ok
    /\ final_results[1].readme_preview = README_FETCH_FAILED
    /\ final_results[2].readme_preview \notin ReadmePlaceholders


---------------------------------------------------------------------------
(* C11 *)

\* a field that is missing, empty or made of whitespace only
Blank(field) ==
    \/ field.type = "absent"
    \/ /\ field.type = "str"
       /\ \A i \in 1..Len(field.val) : IsSpace(field.val[i])

AbsentOrStr(field) == field.type \in {"absent", "str"}

MalformedSearch ==
    /\ handler.request.route = "search"
    /\ Blank(handler.request.query)

MalformedDiagram ==
    /\ handler.request.route = "diagram"
    /\ AbsentOrStr(handler.request.owner)
    /\ AbsentOrStr(handler.request.repo)
    /\ Blank(handler.request.owner) \/ Blank(handler.request.repo)

NoRemoteCall ==
    /\ calls = <<>>
    /\ parser = Idle
    /\ diagram = Idle
    /\ pc = "idle"

\* C11: a /search request whose query is missing, empty or whitespace-only
\* and a /generate-diagram request whose owner or repo is missing or empty
\* are answered with an error payload, and in no state of the handling of
\* such a request, before or after the answer, has the expander, a search,
\* a preview fetch, a tree fetch or the diagram generator been called.
C11_MalformedIsRejected ==
    /\ MalformedSearch =>
         /\ NoRemoteCall
         /\ handler.pc \in {"start", "done"}
         /\ handler.pc = "done" =>
              handler.response = [error |-> "Please enter a search query"]
    /\ MalformedDiagram =>
         /\ NoRemoteCall
         /\ handler.pc \in {"start", "done"}
         /\ handler.pc = "done" =>
              handler.response =
                [error |-> "Owner and repository name are required"]

\* a whitespace-only query has been answered
C11_Witness ==
    /\ handler.pc = "done"
    /\ MalformedSearch
    /\ handler.request.query.type = "str"
    /\ Len(handler.request.query.val) > 0
    /\ DOMAIN handler.response = {"error"}

---------------------------------------------------------------------------
(* C12 *)

NoKeyPlaceholder ==
    <<"[","N","o"," ","A","P","I"," ","k","e","y"," ","c","o","n","f","i",
      "g","u","r","e","d","]">>

ErrorPlaceholder ==
    <<"[","E","r","r","o","r"," ","g","e","n","e","r","a","t","i","n","g",
      " ","d","i","a","g","r","a","m","]">>

\* the number of node labels, NAME[text], in a diagram
NodeCount(text) == Cardinality({i \in 1..Len(text) : text[i] = "["})

\* C12: when the generator has no client or the generation call raises,
\* generate_mermaid_diagram returns a stub diagram of two or three nodes
\* that names the repository passed in and holds an error placeholder; the
\* detail of a raised error appears cut to its first 50 characters.
C12_StubNamesRepository ==
    diagram.pc = "stub" =>
        /\ StartsWith(diagram.result, GraphDirective)
        /\ NodeCount(diagram.result) \in {2, 3}
        /\ Contains(diagram.result, <<"[">> \o diagram.repository_name
                                           \o <<"]">>)
        /\ \/ Contains(diagram.result, NoKeyPlaceholder)
           \/ Contains(diagram.result, ErrorPlaceholder)
        /\ (diagram.client /\ diagram.completion.raised) =>
             LET detail == diagram.completion.error
             IN /\ Contains(diagram.result, Take(detail, ErrorDetailLen))
                /\ Len(detail) > ErrorDetailLen =>
                     ~Contains(diagram.result,
                               Take(detail, ErrorDetailLen + 1))

---------------------------------------------------------------------------
(* C13 *)

IsTree(c) == c.op = "tree"
TreeCalls == SelectSeq(calls, IsTree)

\* the merge of a /search request ran and none of its searches succeeded
EverySearchFailed ==
    /\ handler.request.route = "search"
    /\ SearchCalls # <<>>
    /\ \A i \in 1..Len(SearchCalls) : ~SearchCalls[i].ok

\* the tree fetch of a /generate-diagram request failed
TreeFetchFailed ==
    /\ handler.request.route = "diagram"
    /\ \E i \in 1..Len(TreeCalls) : ~TreeCalls[i].ok

\* C13: when the primary remote fetch of a request fails the answer is an
\* error payload: /search answers with an error payload when the search of
\* no variation succeeds, and /generate-diagram answers with an error
\* payload, the diagram generator never called, when the tree fetch fails.
C13_PrimaryFailureIsError ==
    /\ (EverySearchFailed /\ handler.pc = "done") =>
         HasKey(handler.response, "error")
    /\ TreeFetchFailed =>
         /\ handler.pc = "done"
         /\ HasKey(handler.response, "error")
         /\ diagram = Idle

---------------------------------------------------------------------------
(* C14 *)

IsSleep(c) == c.op = "sleep"
SleepCalls == SelectSeq(calls, IsSleep)

\* the calls made after the search loop
PreviewPhase == SubSeq(calls, Len(SearchCalls) + 1, Len(calls))

\* the first calls are the searches, one per variation and in order
SearchesComeFirst ==
    /\ Len(SearchCalls) <= Len(variations)
    /\ \A i \in 1..Len(SearchCalls) :
         /\ IsSearch(calls[i])
         /\ calls[i].query = variations[i]
    /\ pc = "search" => Len(SearchCalls) = idx - 1
    /\ pc \in {"search", "sort"} => Len(calls) = Len(SearchCalls)
    /\ pc \in {"sort", "readme", "sleep", "done"} =>
         Len(SearchCalls) = Len(variations)

\* then fetch, delay, fetch, ..., the fetches going down the returned list
PreviewsAlternateInRankOrder ==
    \A j \in 1..Len(PreviewPhase) :
        IF j % 2 = 1
        THEN /\ IsReadme(PreviewPhase[j])
             /\ (j + 1) \div 2 <= Len(final_results)
             /\ PreviewPhase[j].id = final_results[(j + 1) \div 2].id
        ELSE IsSleep(PreviewPhase[j])

\* C14: within one merge every search is issued, one per variation and in
\* order, before any preview fetch; a preview is then fetched exactly once
\* for each item of the truncated result and for no item that was cut, in
\* rank order, with a delay after every fetch but the last: n returned
\* items give n fetches and max(n-1, 0) delays.
C14_PreviewSequencing ==
    /\ SearchesComeFirst
    /\ PreviewsAlternateInRankOrder
    /\ pc = "readme" =>
         /\ idx <= Len(final_results)
         /\ Len(PreviewPhase) = 2 * (idx - 1)
    /\ pc = "sleep" =>
         /\ idx < Len(final_results)
         /\ Len(PreviewPhase) = 2 * idx - 1
    /\ pc = "done" =>
         /\ Len(ReadmeCalls) = Len(final_results)
         /\ Len(SleepCalls) =
              IF Len(final_results) = 0 THEN 0 ELSE Len(final_results) - 1
         /\ \A id \in RepoIds :
              Cardinality({j \in 1..Len(ReadmeCalls) :
                              ReadmeCalls[j].id = id})
                = IF \E k \in 1..Len(final_results) :
                        final_results[k].id = id
                  THEN 1 ELSE 0

\* two searches, three merged items, two of them returned: two fetches
\* with one delay between them, none for the item that was cut
C14_Witness ==
    /\ pc = "done"
    /\ Len(SearchCalls) = 2
    /\ Len(all_results) = 3
    /\ Len(final_results) = 2
    /\ Len(ReadmeCalls) = 2
    /\ Len(SleepCalls) = 1
    /\ calls[Len(calls)].op = "readme"

---------------------------------------------------------------------------
(* C15 *)

\* what the caller can rank by: the identities and scores, in order
Ranking(results) ==
    [k \in 1..Len(results) |->
        [id |-> results[k].id,
         semantic_relevance |-> results[k].semantic_relevance]]

\* the score of an item computed from the search response alone
ScoreWithoutPreview(item) ==
    SemanticRelevance(original_query, [item EXCEPT !.readme_preview = None],
                      preferred_language, tie_up)

\* the score the item would get if it were scored with its preview
ScoreWithPreview(item) ==
    SemanticRelevance(original_query, item, preferred_language, tie_up)

\* no preview is fetched before the ranking is fixed, and whatever previews
\* have been stored, every score is the preview-free score and the items
\* stand in the order of those scores (then stars)
RankingIgnoresPreviews ==
    /\ pc \in {"search", "sort"} =>
         /\ ReadmeCalls = <<>>
         /\ \A k \in 1..Len(all_results) :
              all_results[k].readme_preview = None
    /\ \A k \in 1..Len(all_results) :
         all_results[k].semantic_relevance
           = ScoreWithoutPreview(all_results[k])
    /\ Cut =>
         /\ Ranking(final_results)
              = Ranking(Truncate(all_results, limit))
         /\ \A k \in 1..(Len(all_results) - 1) :
              ~RanksAbove(all_results[k + 1], all_results[k])

\* a preview fetch or a delay leaves the identities, order and scores alone
PreviewStepKeepsRanking ==
    pc \in {"readme", "sleep"} =>
        /\ Ranking(final_results') = Ranking(final_results)
        /\ Ranking(all_results') = Ranking(all_results)

\* C15: every item is scored before any preview is fetched and is never
\* scored again, so the returned identities, their order and their scores
\* are fixed by the search responses alone: they are fixed when the first
\* preview is fetched, no preview outcome changes them, and each score is
\* the score of the item without a preview.
C15_RankingIndependentOfPreviews ==
    /\ []RankingIgnoresPreviews
    /\ [][PreviewStepKeepsRanking]_vars

\* a returned item whose fetched preview holds a query word, so that
\* scoring it again would have raised its score
C15_Witness ==
    /\ pc = "done"
    /\ Len(final_results) = 2
    /\ ReadmeCalls[1].ok
    /\ ~ReadmeCalls[2].ok
    /\ final_results[1].readme_preview \notin ReadmePlaceholders
    /\ ScoreWithPreview(final_results[1])
         > final_results[1].semantic_relevance

=============================================================================
